---------------------------- MODULE Spec2Model ----------------------------
(***************************************************************************)
(* Model of birkentempprofiler.py: the argument check, the track source    *)
(* with its track files, the GPX parser, the timeline shifter, the weather *)
(* fetcher with its retry loop, the time-nearest matcher, the profile      *)
(* assembler with its pickle cache, and the main program with its          *)
(* persisted profile and chart.                                            *)
(*                                                                         *)
(* Numbers: a float of the program is modelled by an integer number of     *)
(* tenths (601 is 60.1), so that str(float) can be computed character by   *)
(* character.  An instant (an aware datetime) is an integer number of      *)
(* minutes of UTC; an ISO-8601 text of one is its wall clock and its UTC   *)
(* offset, both in minutes; a naive datetime is its wall clock.            *)
(* Python indices are 0-based, TLA+ sequences 1-based: Python's x[i] is    *)
(* x[i + 1] here.                                                          *)
(***************************************************************************)
EXTENDS Integers, Sequences, FiniteSets

VARIABLES
    pklFile,      \* METdata.pkl on disk: [exists, data]
    jsonFile,     \* fullDict.json on disk: [exists, data]
    htmlFile,     \* temperatureProfile.html on disk: [exists, data]
    gpxFiles,     \* gpxFiles/<race>_<total_time>.gpx on disk, by <<race,
                  \* total_time>>: [exists, empty, data]
    pc,           \* position of the main program: idle, loop, done, aborted
    mode,         \* branch of __main__ taken: none, assemble, resume
    args,         \* the checked command line arguments
    gpxData,      \* the track markup read by getGPXData
    gpxDict,      \* the dictionary built by gpx2dict and shiftTimeGPX
    fresh,        \* appendMET2GPX's local flag
    METdata,      \* appendMET2GPX's in-memory cache
    i,            \* appendMET2GPX's loop variable
    met,          \* the six lists appendMET2GPX fills
    error,        \* the exception that ended the run, or "none"
    written,      \* the files this run has written
    fetchLog,     \* every fetcher call of this run: its arguments, and
                  \* whether all its requests failed
    obtained,     \* outputMET of every sample processed in this run
    trackRequests, \* the requests.get calls getGPXData made in this run
    fetcher,      \* one call of _METurlRequstFunction, attempt by attempt
    mTime,        \* _findClosestTimeIndex: the time argument
    mSeries,      \* _findClosestTimeIndex: the METdata argument's timeseries
    mIndex,       \* _findClosestTimeIndex: the returned index, -1 before
    tDoc,         \* gpx2dict: the markup argument
    tStart,       \* shiftTimeGPX: the startTime argument
    tParsed,      \* what gpx2dict returned
    tShifted,     \* what shiftTimeGPX returned for tParsed
    tTwice,       \* what shiftTimeGPX returned for tShifted
    tStep,        \* calls made so far: none, parsed, shifted, twice
    kA,           \* a sample: <<lat, lon, ele>>
    kB,           \* another sample
    kKeys         \* the METDataKey of kA and of kB, <<>> before

vars == <<pklFile, jsonFile, htmlFile, gpxFiles, trackRequests, pc, mode, args, gpxData, gpxDict, fresh, METdata,
          i, met, error, written, fetchLog, obtained, fetcher, mTime,
          mSeries, mIndex, tDoc, tStart, tParsed, tShifted, tTwice, tStep, kA, kB,
          kKeys>>

runVars == <<pklFile, jsonFile, htmlFile, gpxFiles, trackRequests, pc, mode, args, gpxData, gpxDict, fresh,
             METdata, i, met, error, written, fetchLog, obtained>>

matcherVars == <<mTime, mSeries, mIndex>>

trackVars == <<tDoc, tStart, tParsed, tShifted, tTwice, tStep>>

keyVars == <<kA, kB, kKeys>>

auxVars == <<trackVars, keyVars>>

---------------------------------------------------------------------------
(* Bounds of the model *)

MaxTrackLen == 2      \* trackpoints per track document
MaxSeriesLen == 3     \* entries of a forecast series given to the matcher
MaxInstant == 3       \* instants 0..MaxInstant given to the matcher

(* Program constants *)

max_retries == 5      \* _METurlRequstFunction: max_retries = 5
SleepBase == 5        \* _METurlRequstFunction: time.sleep(5*(i+1))
LocalOffset == 60     \* shiftTimeGPX: "Convert from CET to UTC", CET = UTC+1h

Abs(x) == IF x < 0 THEN -x ELSE x

---------------------------------------------------------------------------
(* str(float), the f-string of the cache key and str.replace *)

Digit(d) ==
    CASE d = 0 -> "0" [] d = 1 -> "1" [] d = 2 -> "2" [] d = 3 -> "3"
      [] d = 4 -> "4" [] d = 5 -> "5" [] d = 6 -> "6" [] d = 7 -> "7"
      [] d = 8 -> "8" [] d = 9 -> "9"

RECURSIVE IntStr(_)
IntStr(n) == IF n < 10 THEN <<Digit(n)>>
             ELSE IntStr(n \div 10) \o <<Digit(n % 10)>>

\* str(v) of a float v with one decimal, as its sequence of characters
FloatStr(v) ==
    (IF v < 0 THEN <<"-">> ELSE <<>>)
        \o IntStr(Abs(v) \div 10) \o <<".">> \o IntStr(Abs(v) % 10)

DigitValue(c) ==
    CASE c = "0" -> 0 [] c = "1" -> 1 [] c = "2" -> 2 [] c = "3" -> 3
      [] c = "4" -> 4 [] c = "5" -> 5 [] c = "6" -> 6 [] c = "7" -> 7
      [] c = "8" -> 8 [] c = "9" -> 9

RECURSIVE ParseInt(_)
ParseInt(s) == IF s = <<>> THEN 0
               ELSE 10 * ParseInt(SubSeq(s, 1, Len(s) - 1)) + DigitValue(s[Len(s)])

\* float(s) of a decimal text with one decimal, in tenths
ParseFloat(s) ==
    LET body == IF s[1] = "-" THEN Tail(s) ELSE s
        dot == CHOOSE k \in 1..Len(body) : body[k] = "."
        tenths == 10 * ParseInt(SubSeq(body, 1, dot - 1))
                      + ParseInt(SubSeq(body, dot + 1, Len(body)))
    IN  IF s[1] = "-" THEN -tenths ELSE tenths

\* s.replace(old, new) for one-character old and new
Replace(s, old, new) ==
    [k \in 1..Len(s) |-> IF s[k] = old THEN new ELSE s[k]]

\* a key made with int(ele), as the request URL is: not the program's key
METDataKey_IntEle(lat, lon, ele) ==
    Replace(FloatStr(lat) \o <<"_">> \o FloatStr(lon) \o <<"_">>
                \o (IF ele < 0 THEN <<"-">> ELSE <<>>) \o IntStr(Abs(ele) \div 10),
            ".", "_")

\* f"{lat}_{lon}_{ele}".replace('.','_')
METDataKey(lat, lon, ele) ==
    Replace(FloatStr(lat) \o <<"_">> \o FloatStr(lon) \o <<"_">> \o FloatStr(ele),
            ".", "_")

\* int(alt): truncation toward zero
IntOf(v) == IF v < 0 THEN -((-v) \div 10) ELSE v \div 10

---------------------------------------------------------------------------
(* Inputs: trackpoints, track documents, forecast payloads, arguments *)

\* A trkpt element: its lat and lon attributes and its ele and time children
\* (each absent or present once).
TrkPt(lat, lon, ele, time) == [lat |-> lat, lon |-> lon, ele |-> ele, time |-> time]

\* the ISO-8601 text of the instant wall - off, written with UTC offset off
IsoText(wall, off) == [wall |-> wall, off |-> off]

TrkPts ==
    { TrkPt(601, 105, <<5000>>, <<IsoText(60, 60)>>),  \* 60.1, 10.5, 500.0, 01:00+01:00
      TrkPt(601, -106, <<5010>>, <<IsoText(1, 0)>>),   \* 60.1, -10.6, 501.0, 00:01+00:00
      TrkPt(602, 105, <<>>, <<IsoText(1, 0)>>),        \* no ele child
      TrkPt(601, 105, <<5000>>, <<>>) }      \* no time child

GpxDocs == UNION { [1..n -> TrkPts] : n \in 0..MaxTrackLen }

\* data.instant.details of one timeseries entry
Details(n) ==
    [air_temperature_percentile_90 |-> n + 5,
     air_temperature_percentile_10 |-> n,
     relative_humidity |-> n + 10,
     wind_speed |-> n + 20,
     cloud_area_fraction |-> n + 30,
     wind_from_direction |-> n + 40]

Entry(t, n) == [time |-> t, details |-> Details(n)]

\* properties.timeseries of the two payloads the weather service may answer
Payloads ==
    { <<Entry(9, 1), Entry(11, 2)>>,
      <<Entry(10, 3), Entry(11, 4)>> }

\* args.datetime_start: a naive datetime, 01:10 local time
Starts == {70}

\* --start texts: an ISO-8601 text of a naive datetime, and a text that
\* datetime.fromisoformat rejects
StartText(iso, wall) == [iso |-> iso, wall |-> wall]

\* what parser.parse_args() returns; an option that was not given is <<>>
\* (None), one that was given is <<value>>
Namespace(start, race, hours, minutes, gpx, f, d) ==
    [start |-> start, race |-> race, hours |-> hours, minutes |-> minutes,
     gpx |-> gpx, fresh |-> f, debug |-> d,
     total_time |-> 0, datetime_start |-> 0]

\* the paths os.path.exists finds
LocalPaths == {"track.gpx"}

\* command lines the program accepts: -t defaults to 4, the track is
\* downloaded or read from track.gpx
ValidNamespaces ==
    { Namespace(StartText(TRUE, w), "rennet", <<4>>, <<>>, g, f, d) :
          w \in Starts, g \in {<<>>, <<"track.gpx">>}, f \in BOOLEAN, d \in BOOLEAN }

\* command lines with one invalid input each
InvalidNamespaces ==
    UNION { { Namespace(StartText(FALSE, 0), "rennet", <<4>>, <<>>, <<>>, FALSE, d),
              Namespace(StartText(TRUE, w), "bogus", <<4>>, <<>>, <<>>, FALSE, d),
              Namespace(StartText(TRUE, w), "rennet", <<>>, <<>>, <<>>, FALSE, d),
              Namespace(StartText(TRUE, w), "rennet", <<4>>, <<>>, <<"missing.gpx">>, FALSE, d) } :
            w \in Starts, d \in BOOLEAN }

Namespaces == ValidNamespaces \cup InvalidNamespaces

NoArgs == Namespace(StartText(FALSE, 0), "", <<>>, <<>>, <<>>, FALSE, FALSE)

---------------------------------------------------------------------------
(* checkArgs *)

\* checkArgs without the check of the race: not the program's
checkArgs_AnyRace(ns) ==
    LET total_time == IF ns.minutes # <<>> /\ ns.hours # <<>>
                      THEN ns.minutes[1] * 60 + ns.hours[1] * 3600
                      ELSE IF ns.hours = <<>> THEN ns.minutes[1] * 60
                           ELSE ns.hours[1] * 3600
        timed == [ns EXCEPT !.total_time = total_time]
        dated == [timed EXCEPT !.datetime_start = ns.start.wall]
    IN  IF ns.minutes = <<>> /\ ns.hours = <<>>
        THEN [outcome |-> "raised", error |-> "TypeError", args |-> ns]
        ELSE IF ~ns.start.iso
        THEN [outcome |-> "exit", error |-> "SystemExit", args |-> timed]
        ELSE IF ns.gpx # <<>> /\ ns.gpx[1] \notin LocalPaths
        THEN [outcome |-> "exit", error |-> "SystemExit", args |-> dated]
        ELSE [outcome |-> "ok", error |-> "none", args |-> dated]

\* checkArgs(args): the outcome (ok, exit for exit(1), raised for an
\* exception), and the namespace with the attributes assigned so far.  With
\* minutes and hours both None the second branch evaluates None * 60.
checkArgs(ns) ==
    LET total_time == IF ns.minutes # <<>> /\ ns.hours # <<>>
                      THEN ns.minutes[1] * 60 + ns.hours[1] * 3600
                      ELSE IF ns.hours = <<>> THEN ns.minutes[1] * 60
                           ELSE ns.hours[1] * 3600
        timed == [ns EXCEPT !.total_time = total_time]
        dated == [timed EXCEPT !.datetime_start = ns.start.wall]
    IN  IF ns.minutes = <<>> /\ ns.hours = <<>>
        THEN [outcome |-> "raised", error |-> "TypeError", args |-> ns]
        ELSE IF ~ns.start.iso
        THEN [outcome |-> "exit", error |-> "SystemExit", args |-> timed]
        ELSE IF ns.race \notin {"rennet", "rittet", "løpet"}
        THEN [outcome |-> "exit", error |-> "SystemExit", args |-> dated]
        ELSE IF ns.gpx # <<>> /\ ns.gpx[1] \notin LocalPaths
        THEN [outcome |-> "exit", error |-> "SystemExit", args |-> dated]
        ELSE [outcome |-> "ok", error |-> "none", args |-> dated]

---------------------------------------------------------------------------
(* gpx2dict *)

RECURSIVE Children(_, _)
\* the texts of the children named tag of every trkpt, in document order
Children(doc, tag) ==
    IF doc = <<>> THEN <<>>
    ELSE (IF tag = "ele" THEN Head(doc).ele ELSE Head(doc).time)
             \o Children(Tail(doc), tag)

\* geodesic((lat1, lon1), (lat2, lon2)).kilometers: a distance, zero exactly
\* between equal points
Geodesic(lat1, lon1, lat2, lon2) == Abs(lat1 - lat2) + Abs(lon1 - lon2)

RECURSIVE DistanceLoop(_, _, _, _)
\* for i in range(1, len(lat)): distance.append(distance[-1] + geodesic(...))
DistanceLoop(lat, lon, k, distance) ==
    IF k >= Len(lat) THEN distance
    ELSE DistanceLoop(lat, lon, k + 1,
             Append(distance,
                    distance[Len(distance)]
                        + Geodesic(lat[k], lon[k], lat[k + 1], lon[k + 1])))

gpx2dict(doc) ==
    LET lat == [k \in 1..Len(doc) |-> doc[k].lat]
        lon == [k \in 1..Len(doc) |-> doc[k].lon]
    IN  [ele |-> Children(doc, "ele"),
         time |-> Children(doc, "time"),
         lat |-> lat,
         lon |-> lon,
         distance |-> DistanceLoop(lat, lon, 1, <<0>>)]

EmptyDict == [ele |-> <<>>, time |-> <<>>, lat |-> <<>>, lon |-> <<>>,
              distance |-> <<>>]

---------------------------------------------------------------------------
(* shiftTimeGPX *)

\* datetime.datetime.fromisoformat(t) of a text with a UTC offset: the instant
fromisoformat(t) == t.wall - t.off

\* t.isoformat() of a datetime in UTC
isoformat(instant) == IsoText(instant, 0)

\* startTime.astimezone(datetime.timezone.utc) of a naive datetime, which
\* Python takes as local time
AsTimezoneUTC(naive) == naive - LocalOffset

\* a shifter that measures every sample from the last one: not the program's
shiftTimeGPX_FromLast(d, startTime) ==
    LET start == AsTimezoneUTC(startTime)
        time == [k \in 1..Len(d.time) |-> fromisoformat(d.time[k])]
        shifted == [k \in 1..Len(time) |-> start + (time[k] - time[Len(time)])]
    IN  [d EXCEPT !.time = [k \in 1..Len(shifted) |-> isoformat(shifted[k])]]

\* a shifter that subtracts the offset it should add: not the program's
shiftTimeGPX_WrongSign(d, startTime) ==
    LET start == AsTimezoneUTC(startTime)
        time == [k \in 1..Len(d.time) |-> fromisoformat(d.time[k])]
        shifted == [k \in 1..Len(time) |-> time[k] - (start - time[1])]
    IN  [d EXCEPT !.time = [k \in 1..Len(shifted) |-> isoformat(shifted[k])]]

shiftTimeGPX(d, startTime) ==
    LET start == AsTimezoneUTC(startTime)
        time == [k \in 1..Len(d.time) |-> fromisoformat(d.time[k])]
        shifted == [k \in 1..Len(time) |-> start + (time[k] - time[1])]
    IN  [d EXCEPT !.time = [k \in 1..Len(shifted) |-> isoformat(shifted[k])]]

---------------------------------------------------------------------------
(* _findClosestTimeIndex *)

RECURSIVE MinByKey_LastMin(_, _, _, _)
MinByKey_LastMin(times, time, k, best) ==
    IF k > Len(times) THEN best
    ELSE MinByKey_LastMin(times, time, k + 1,
                  IF Abs(times[k] - time) <= Abs(best - time) THEN times[k] ELSE best)

RECURSIVE MinByKey(_, _, _, _)
\* min(times, key=lambda x: abs(x - time)): the first element with the
\* smallest key
MinByKey(times, time, k, best) ==
    IF k > Len(times) THEN best
    ELSE MinByKey(times, time, k + 1,
                  IF Abs(times[k] - time) < Abs(best - time) THEN times[k] ELSE best)

RECURSIVE ListIndex(_, _, _)
\* times.index(x): the 0-based index of the first element equal to x
ListIndex(times, x, k) ==
    IF times[k] = x THEN k - 1 ELSE ListIndex(times, x, k + 1)

FindClosestTimeIndex(time, timeseries) ==
    LET times == [k \in 1..Len(timeseries) |-> timeseries[k].time]
        closestTime == MinByKey(times, time, 2, times[1])
    IN  ListIndex(times, closestTime, 1)

---------------------------------------------------------------------------
(* _METurlRequstFunction *)

\* the answer to one requests.get: a JSON payload, or a RequestException
Responses == { [ok |-> TRUE, json |-> p] : p \in Payloads }
                 \cup { [ok |-> FALSE, json |-> <<>>] }

FailResponse == [ok |-> FALSE, json |-> <<>>]

\* the state of a call at its start: urlRequstStr is built, the loop has not run
FetcherStart(lat, lon, alt) ==
    [url |-> [lat |-> lat, lon |-> lon, altitude |-> IntOf(alt)],
     attempt |-> 0, requests |-> 0, delays |-> <<>>,
     outcome |-> "running", result |-> <<>>, error |-> "none"]

FetcherIdle ==
    [url |-> [lat |-> 0, lon |-> 0, altitude |-> 0],
     attempt |-> 0, requests |-> 0, delays |-> <<>>,
     outcome |-> "idle", result |-> <<>>, error |-> "none"]

Backoff_FromZero(attempt) == SleepBase * attempt

\* time.sleep(5*(i+1))
Backoff(attempt) == SleepBase * (attempt + 1)

\* one iteration of the for loop: the request, then return r.json() or sleep
FetchIteration(f, resp) ==
    IF resp.ok
    THEN [f EXCEPT !.requests = @ + 1, !.outcome = "returned", !.result = resp.json]
    ELSE [f EXCEPT !.requests = @ + 1,
                   !.delays = Append(@, Backoff(f.attempt)),
                   !.attempt = @ + 1]

FetchAfterLoop_Placeholder(f) ==
    [f EXCEPT !.outcome = "returned", !.result = <<Entry(0, 0)>>]

\* after the loop: the two prints.  The name e of "except ... as e" is unbound
\* once the except clause is left, so print(f"Error: {e}") raises
\* UnboundLocalError and "return None" is never reached.
FetchAfterLoop(f) ==
    [f EXCEPT !.outcome = "raised", !.error = "UnboundLocalError"]

FetchStep(f, resp) ==
    IF f.attempt < max_retries THEN FetchIteration(f, resp) ELSE FetchAfterLoop(f)

RECURSIVE FetchDrive(_, _, _)
FetchDrive(f, env, k) ==
    IF f.outcome # "running" THEN f
    ELSE FetchDrive(FetchStep(f, IF k <= Len(env) THEN env[k] ELSE FailResponse),
                    env, k + 1)

\* a whole call, the service answering env[1], env[2], ...
METurlRequstFunction(lat, lon, alt, env) ==
    FetchDrive(FetcherStart(lat, lon, alt), env, 1)

\* what the service may answer to the requests of one call: k failures, then
\* a payload or a further failure
FetchEnvs ==
    { [k \in 1..max_retries |-> IF k <= n THEN FailResponse ELSE r] :
          n \in 0..max_retries, r \in Responses \ {FailResponse} }


---------------------------------------------------------------------------
(* appendMET2GPX and __main__ *)

EmptyMet ==
    [temp_low |-> <<>>, temp_high |-> <<>>, humidity |-> <<>>,
     wind_speed |-> <<>>, cloud_area_fraction |-> <<>>,
     wind_from_direction |-> <<>>]

\* gpxDict once appendMET2GPX has added its six lists: the fullDict of __main__
FullDict(g, m) ==
    [ele |-> g.ele, time |-> g.time, lat |-> g.lat, lon |-> g.lon,
     distance |-> g.distance,
     temp_low |-> m.temp_low, temp_high |-> m.temp_high,
     humidity |-> m.humidity, wind_speed |-> m.wind_speed,
     cloud_area_fraction |-> m.cloud_area_fraction,
     wind_from_direction |-> m.wind_from_direction]

NoFile(data) == [exists |-> FALSE, data |-> data]

File(data) == [exists |-> TRUE, data |-> data]

\* json.dump(fullDict, f): every number is written as its repr, every time
\* text as itself
JsonDump(d) ==
    LET Texts(l) == [k \in 1..Len(l) |-> FloatStr(l[k])]
    IN  [ele |-> Texts(d.ele), time |-> d.time, lat |-> Texts(d.lat),
         lon |-> Texts(d.lon), distance |-> Texts(d.distance),
         temp_low |-> Texts(d.temp_low), temp_high |-> Texts(d.temp_high),
         humidity |-> Texts(d.humidity), wind_speed |-> Texts(d.wind_speed),
         cloud_area_fraction |-> Texts(d.cloud_area_fraction),
         wind_from_direction |-> Texts(d.wind_from_direction)]

\* a reader that keeps the integer part of every number: not the program's
JsonLoad_IntegerPart(t) ==
    LET Numbers(l) == [k \in 1..Len(l) |-> 10 * IntOf(ParseFloat(l[k]))]
    IN  [ele |-> Numbers(t.ele), time |-> t.time, lat |-> Numbers(t.lat),
         lon |-> Numbers(t.lon), distance |-> Numbers(t.distance),
         temp_low |-> Numbers(t.temp_low), temp_high |-> Numbers(t.temp_high),
         humidity |-> Numbers(t.humidity), wind_speed |-> Numbers(t.wind_speed),
         cloud_area_fraction |-> Numbers(t.cloud_area_fraction),
         wind_from_direction |-> Numbers(t.wind_from_direction)]

\* json.load(f) of a text json.dump wrote
JsonLoad(t) ==
    LET Numbers(l) == [k \in 1..Len(l) |-> ParseFloat(l[k])]
    IN  [ele |-> Numbers(t.ele), time |-> t.time, lat |-> Numbers(t.lat),
         lon |-> Numbers(t.lon), distance |-> Numbers(t.distance),
         temp_low |-> Numbers(t.temp_low), temp_high |-> Numbers(t.temp_high),
         humidity |-> Numbers(t.humidity), wind_speed |-> Numbers(t.wind_speed),
         cloud_area_fraction |-> Numbers(t.cloud_area_fraction),
         wind_from_direction |-> Numbers(t.wind_from_direction)]

\* plotFullDict(fullDict, args): the three traces over distance and the title
plotFullDict(fullDict, a) ==
    [x |-> fullDict.distance, temp_low |-> fullDict.temp_low,
     temp_high |-> fullDict.temp_high, ele |-> fullDict.ele,
     title |-> <<a.datetime_start, a.total_time>>]

NoChart == plotFullDict(FullDict(EmptyDict, EmptyMet), NoArgs)

\* the file name of a downloaded track, without folder and extension
TrackName(race, total_time) == <<race, total_time>>

TrackNames == { TrackName(ns.race, checkArgs(ns).args.total_time) : ns \in Namespaces }

NoGpxFile == [exists |-> FALSE, empty |-> TRUE, data |-> <<>>]

\* a track file with the text of a GPX document
GpxFile(doc) == [exists |-> TRUE, empty |-> FALSE, data |-> doc]

\* a track file open(fname, 'w') created and nothing was written to
EmptyGpxFile == [exists |-> TRUE, empty |-> TRUE, data |-> <<>>]

\* the document tracker.birkebeiner.no serves for a race and a finishing time
RemoteTrack(race, total_time) ==
    << TrkPt(601, 105, <<5000>>, <<IsoText(60, 60)>>),
       TrkPt(601, -106, <<5010>>, <<IsoText(1, 0)>>) >>

\* getGPXData(race, total_time, gpxPath); local is the text of the file at
\* gpxPath, ok tells whether the download succeeds.  Gives how the call ends,
\* the text returned, the track files afterwards and the requests made.
getGPXData(race, total_time, gpxPath, local, ok) ==
    LET fname == TrackName(race, total_time)
    IN  IF gpxPath # <<>>
        THEN [outcome |-> "returned", error |-> "none", empty |-> FALSE,
              gpxData |-> local, files |-> gpxFiles, requests |-> 0]
        ELSE IF gpxFiles[fname].exists
        THEN [outcome |-> "returned", error |-> "none",
              empty |-> gpxFiles[fname].empty, gpxData |-> gpxFiles[fname].data,
              files |-> gpxFiles, requests |-> 0]
        ELSE IF ok
        THEN [outcome |-> "returned", error |-> "none", empty |-> FALSE,
              gpxData |-> RemoteTrack(race, total_time),
              files |-> [gpxFiles EXCEPT
                            ![fname] = GpxFile(RemoteTrack(race, total_time))],
              requests |-> 1]
        ELSE [outcome |-> "raised", error |-> "TypeError", empty |-> TRUE,
              gpxData |-> <<>>,
              files |-> [gpxFiles EXCEPT ![fname] = EmptyGpxFile],
              requests |-> 1]

\* METdata[METDataKey] = outputMET
Store(cache, key, value) ==
    [k \in DOMAIN cache \cup {key} |-> IF k = key THEN value ELSE cache[k]]

AppendSample_FirstEntry(m, outputMET, index) ==
    LET details == outputMET[1].details
    IN  [temp_high |-> Append(m.temp_high, details.air_temperature_percentile_90),
         temp_low |-> Append(m.temp_low, details.air_temperature_percentile_10),
         humidity |-> Append(m.humidity, details.relative_humidity),
         wind_speed |-> Append(m.wind_speed, details.wind_speed),
         cloud_area_fraction |-> Append(m.cloud_area_fraction, details.cloud_area_fraction),
         wind_from_direction |-> Append(m.wind_from_direction, details.wind_from_direction)]

\* the six appends of one loop iteration
AppendSample(m, outputMET, index) ==
    LET details == outputMET[index + 1].details
    IN  [temp_high |-> Append(m.temp_high, details.air_temperature_percentile_90),
         temp_low |-> Append(m.temp_low, details.air_temperature_percentile_10),
         humidity |-> Append(m.humidity, details.relative_humidity),
         wind_speed |-> Append(m.wind_speed, details.wind_speed),
         cloud_area_fraction |-> Append(m.cloud_area_fraction, details.cloud_area_fraction),
         wind_from_direction |-> Append(m.wind_from_direction, details.wind_from_direction)]

RunInit ==
    /\ pklFile = NoFile(<<>>)
    /\ jsonFile = NoFile(FullDict(EmptyDict, EmptyMet))
    /\ htmlFile = NoFile(NoChart)
    /\ gpxFiles = [n \in TrackNames |-> NoGpxFile]
    /\ trackRequests = 0
    /\ pc = "idle"
    /\ mode = "none"
    /\ args = NoArgs
    /\ gpxData = <<>>
    /\ gpxDict = EmptyDict
    /\ fresh = FALSE
    /\ METdata = <<>>
    /\ i = 0
    /\ met = EmptyMet
    /\ error = "none"
    /\ written = {}
    /\ fetchLog = <<>>
    /\ obtained = <<>>

MatcherIdle ==
    /\ mTime = 0
    /\ mSeries = <<>>
    /\ mIndex = -1

TrackIdle ==
    /\ tDoc = <<>>
    /\ tStart = 0
    /\ tParsed = EmptyDict
    /\ tShifted = EmptyDict
    /\ tTwice = EmptyDict
    /\ tStep = "none"

KeyIdle ==
    /\ kA = <<0, 0, 0>>
    /\ kB = <<0, 0, 0>>
    /\ kKeys = <<>>

Init ==
    /\ RunInit
    /\ fetcher = FetcherIdle
    /\ MatcherIdle
    /\ TrackIdle
    /\ KeyIdle

\* getArgumnets: checkArgs leaves the program, nothing else has happened
Reject(ns) ==
    /\ pc = "idle"
    /\ checkArgs(ns).outcome # "ok"
    /\ pc' = "aborted"
    /\ error' = checkArgs(ns).error
    /\ args' = checkArgs(ns).args
    /\ UNCHANGED <<pklFile, jsonFile, htmlFile, gpxFiles, trackRequests, mode,
                   gpxData, gpxDict, fresh, METdata, i, met, written, fetchLog,
                   obtained, fetcher, matcherVars, auxVars>>

\* __main__, first branch, up to the for loop of appendMET2GPX: the arguments
\* are checked, the track is read (local file, track file or download),
\* parsed and shifted, and the cache is loaded or started empty
StartRun(ns, local, ok) ==
    /\ pc = "idle"
    /\ checkArgs(ns).outcome = "ok"
    /\ LET a == checkArgs(ns).args
           g == getGPXData(a.race, a.total_time, a.gpx, local, ok)
       IN  /\ ~a.debug \/ ~jsonFile.exists
           /\ mode' = "assemble"
           /\ args' = a
           /\ gpxFiles' = g.files
           /\ trackRequests' = g.requests
           /\ gpxData' = g.gpxData
           /\ IF g.outcome = "raised" \/ g.empty
              THEN \* f.write(None), or ET.fromstring('') in gpx2dict
                   /\ pc' = "aborted"
                   /\ error' = IF g.outcome = "raised" THEN g.error ELSE "ParseError"
                   /\ gpxDict' = EmptyDict
                   /\ METdata' = <<>>
                   /\ fresh' = FALSE
              ELSE /\ pc' = "loop"
                   /\ error' = "none"
                   /\ gpxDict' = shiftTimeGPX(gpx2dict(g.gpxData), a.datetime_start)
                   /\ IF ~a.fresh /\ pklFile.exists
                      THEN METdata' = pklFile.data /\ fresh' = FALSE
                      ELSE METdata' = <<>> /\ fresh' = TRUE
    /\ i' = 0
    /\ met' = EmptyMet
    /\ UNCHANGED <<pklFile, jsonFile, htmlFile, written, fetchLog, obtained,
                   fetcher, matcherVars, auxVars>>

\* an exception nobody catches ends the program
Raise(e) ==
    /\ pc' = "aborted"
    /\ error' = e
    /\ UNCHANGED <<i, met, obtained>>

\* the rest of an iteration once outputMET is known
UseForecast(outputMET) ==
    IF i >= Len(gpxDict.time)
    THEN Raise("IndexError")
    ELSE /\ met' = AppendSample(met, outputMET,
                                FindClosestTimeIndex(fromisoformat(gpxDict.time[i + 1]),
                                                     outputMET))
         /\ obtained' = Append(obtained, outputMET)
         /\ i' = i + 1
         /\ UNCHANGED <<pc, error>>

\* the answers of the service one iteration depends on: no request is made
\* unless the run is fresh
RunEnvs == IF fresh THEN FetchEnvs ELSE {[k \in 1..max_retries |-> FailResponse]}

\* an iteration that pickles the cache as soon as it has changed, so that an
\* aborted run keeps what it fetched: not the program's
ForBody_SavesEachEntry(env) ==
    /\ pc = "loop"
    /\ i < Len(gpxDict.lat)
    /\ env \in RunEnvs
    /\ IF i >= Len(gpxDict.ele)
       THEN Raise("IndexError") /\ UNCHANGED <<METdata, fetchLog>>
       ELSE LET lat == gpxDict.lat[i + 1]
                lon == gpxDict.lon[i + 1]
                ele == gpxDict.ele[i + 1]
                METDataKey_ == METDataKey(lat, lon, ele)
            IN  IF fresh
                THEN LET call == METurlRequstFunction(lat, lon, ele, env)
                     IN  /\ fetchLog' = Append(fetchLog,
                                [lat |-> lat, lon |-> lon, alt |-> ele,
                                 allFailed |-> Len(call.delays) = max_retries])
                         /\ IF call.outcome = "raised"
                            THEN Raise(call.error) /\ UNCHANGED METdata
                            ELSE /\ METdata' = Store(METdata, METDataKey_, call.result)
                                 /\ UseForecast(call.result)
                ELSE /\ UNCHANGED <<METdata, fetchLog>>
                     /\ IF METDataKey_ \notin DOMAIN METdata
                        THEN Raise("KeyError")
                        ELSE UseForecast(METdata[METDataKey_])
    /\ pklFile' = [exists |-> TRUE, data |-> METdata']
    /\ UNCHANGED <<jsonFile, htmlFile, gpxFiles, trackRequests, mode,
                   args, gpxData, gpxDict, fresh, written, fetcher, matcherVars,
                   auxVars>>

\* one iteration of the for loop of appendMET2GPX, the fetcher call included
ForBody(env) ==
    /\ pc = "loop"
    /\ i < Len(gpxDict.lat)
    /\ env \in RunEnvs
    /\ IF i >= Len(gpxDict.ele)
       THEN Raise("IndexError") /\ UNCHANGED <<METdata, fetchLog>>
       ELSE LET lat == gpxDict.lat[i + 1]
                lon == gpxDict.lon[i + 1]
                ele == gpxDict.ele[i + 1]
                METDataKey_ == METDataKey(lat, lon, ele)
            IN  IF fresh
                THEN LET call == METurlRequstFunction(lat, lon, ele, env)
                     IN  /\ fetchLog' = Append(fetchLog,
                                [lat |-> lat, lon |-> lon, alt |-> ele,
                                 allFailed |-> Len(call.delays) = max_retries])
                         /\ IF call.outcome = "raised"
                            THEN Raise(call.error) /\ UNCHANGED METdata
                            ELSE /\ METdata' = Store(METdata, METDataKey_, call.result)
                                 /\ UseForecast(call.result)
                ELSE /\ UNCHANGED <<METdata, fetchLog>>
                     /\ IF METDataKey_ \notin DOMAIN METdata
                        THEN Raise("KeyError")
                        ELSE UseForecast(METdata[METDataKey_])
    /\ UNCHANGED <<pklFile, jsonFile, htmlFile, gpxFiles, trackRequests, mode,
                   args, gpxData, gpxDict, fresh, written, fetcher, matcherVars,
                   auxVars>>

\* after the loop: the lists join gpxDict, the cache is pickled, __main__
\* dumps fullDict.json and writes the chart
LoopEnd ==
    /\ pc = "loop"
    /\ i >= Len(gpxDict.lat)
    /\ pklFile' = File(METdata)
    /\ jsonFile' = File(FullDict(gpxDict, met))
    /\ htmlFile' = File(plotFullDict(FullDict(gpxDict, met), args))
    /\ written' = {"METdata.pkl", "fullDict.json", "temperatureProfile.html"}
    /\ pc' = "done"
    /\ UNCHANGED <<gpxFiles, trackRequests, mode, args, gpxData, gpxDict, fresh, METdata, i, met, error,
                   fetchLog, obtained, fetcher, matcherVars, auxVars>>

\* __main__, else branch: the persisted profile is loaded, dumped again and
\* plotted
Resume(ns) ==
    /\ pc = "idle"
    /\ checkArgs(ns).outcome = "ok"
    /\ LET a == checkArgs(ns).args
           fullDict == JsonLoad(JsonDump(jsonFile.data))
       IN  /\ a.debug /\ jsonFile.exists
           /\ args' = a
           /\ jsonFile' = File(fullDict)
           /\ htmlFile' = File(plotFullDict(fullDict, a))
    /\ mode' = "resume"
    /\ written' = {"fullDict.json", "temperatureProfile.html"}
    /\ pc' = "done"
    /\ UNCHANGED <<pklFile, gpxFiles, trackRequests, gpxData, gpxDict, fresh,
                   METdata, i, met, error, fetchLog, obtained, fetcher,
                   matcherVars, auxVars>>

\* the process is gone; the files stay
Exit ==
    /\ pc \in {"done", "aborted"}
    /\ pc' = "idle"
    /\ mode' = "none"
    /\ args' = NoArgs
    /\ gpxData' = <<>>
    /\ gpxDict' = EmptyDict
    /\ fresh' = FALSE
    /\ METdata' = <<>>
    /\ i' = 0
    /\ met' = EmptyMet
    /\ error' = "none"
    /\ written' = {}
    /\ fetchLog' = <<>>
    /\ obtained' = <<>>
    /\ trackRequests' = 0
    /\ UNCHANGED <<pklFile, jsonFile, htmlFile, gpxFiles, fetcher, matcherVars,
                   auxVars>>

\* command lines with -g: the track is read from a local file
LocalNamespaces == { ns \in Namespaces : ns.gpx # <<>> }

\* command lines without -g: the track is the tracker's, downloaded or read
\* from its track file
RemoteNamespaces == { ns \in Namespaces : ns.gpx = <<>> }

\* runs of the program on local track files of every small content
Next ==
    \/ \E ns \in Namespaces : Reject(ns)
    \/ \E ns \in LocalNamespaces, local \in GpxDocs : StartRun(ns, local, TRUE)
    \/ \E env \in FetchEnvs : ForBody(env)
    \/ LoopEnd
    \/ \E ns \in LocalNamespaces : Resume(ns)
    \/ Exit

Spec == Init /\ [][Next]_vars

\* runs of the program on the tracker's track, the download succeeding or not
SourceNext ==
    \/ \E ns \in Namespaces : Reject(ns)
    \/ \E ns \in RemoteNamespaces, ok \in BOOLEAN : StartRun(ns, <<>>, ok)
    \/ \E env \in FetchEnvs : ForBody(env)
    \/ LoopEnd
    \/ \E ns \in RemoteNamespaces : Resume(ns)
    \/ Exit

SourceSpec == Init /\ [][SourceNext]_vars

---------------------------------------------------------------------------
(* One call of _METurlRequstFunction, request by request *)

FetchInit ==
    /\ RunInit
    /\ MatcherIdle
    /\ TrackIdle
    /\ KeyIdle
    /\ \E lat \in {601, 602}, lon \in {105, -106}, alt \in {5000, 5019} :
           fetcher = FetcherStart(lat, lon, alt)

\* one iteration: requests.get answers resp
FetchRequest(resp) ==
    /\ fetcher.outcome = "running"
    /\ fetcher.attempt < max_retries
    /\ fetcher' = FetchStep(fetcher, resp)
    /\ UNCHANGED <<runVars, matcherVars, auxVars>>

\* the loop has run max_retries times without returning
FetchExhausted ==
    /\ fetcher.outcome = "running"
    /\ fetcher.attempt >= max_retries
    /\ fetcher' = FetchStep(fetcher, FailResponse)
    /\ UNCHANGED <<runVars, matcherVars, auxVars>>

FetchNext ==
    \/ \E resp \in Responses : FetchRequest(resp)
    \/ FetchExhausted

FetchSpec == FetchInit /\ [][FetchNext]_vars

---------------------------------------------------------------------------
(* _findClosestTimeIndex on every small forecast series *)

Instants == 0..MaxInstant

MatcherSeries ==
    UNION { [1..n -> {Entry(t, 0) : t \in Instants}] : n \in 1..MaxSeriesLen }

MatcherInit ==
    /\ RunInit
    /\ fetcher = FetcherIdle
    /\ mTime \in Instants
    /\ mSeries \in MatcherSeries
    /\ mIndex = -1
    /\ TrackIdle
    /\ KeyIdle

Match ==
    /\ mIndex = -1
    /\ mIndex' = FindClosestTimeIndex(mTime, mSeries)
    /\ UNCHANGED <<runVars, fetcher, mTime, mSeries, auxVars>>

MatcherNext == Match

MatcherSpec == MatcherInit /\ [][MatcherNext]_vars

---------------------------------------------------------------------------
(* gpx2dict and shiftTimeGPX on every small track: parse, shift, shift again *)

\* startTime arguments: 01:10 and 01:15 local time
ShiftStarts == {70, 75}

TrackInit ==
    /\ RunInit
    /\ fetcher = FetcherIdle
    /\ MatcherIdle
    /\ KeyIdle
    /\ tDoc \in GpxDocs
    /\ tStart \in ShiftStarts
    /\ tParsed = EmptyDict
    /\ tShifted = EmptyDict
    /\ tTwice = EmptyDict
    /\ tStep = "none"

\* gpxDict = gpx2dict(gpxData)
Parse ==
    /\ tStep = "none"
    /\ tParsed' = gpx2dict(tDoc)
    /\ tStep' = "parsed"
    /\ UNCHANGED <<runVars, fetcher, matcherVars, keyVars, tDoc, tStart,
                   tShifted, tTwice>>

\* gpxDict = shiftTimeGPX(gpxDict, startTime)
ShiftOnce ==
    /\ tStep = "parsed"
    /\ tShifted' = shiftTimeGPX(tParsed, tStart)
    /\ tStep' = "shifted"
    /\ UNCHANGED <<runVars, fetcher, matcherVars, keyVars, tDoc, tStart,
                   tParsed, tTwice>>

\* shiftTimeGPX applied to its own result, with the same startTime
ShiftTwice ==
    /\ tStep = "shifted"
    /\ tTwice' = shiftTimeGPX(tShifted, tStart)
    /\ tStep' = "twice"
    /\ UNCHANGED <<runVars, fetcher, matcherVars, keyVars, tDoc, tStart,
                   tParsed, tShifted>>

TrackNext ==
    \/ Parse
    \/ ShiftOnce
    \/ ShiftTwice

TrackSpec == TrackInit /\ [][TrackNext]_vars

---------------------------------------------------------------------------
(* METDataKey on every pair of samples with small decimal values *)

\* -0.1, 1.0, 1.1, 500.0, 501.0
CoordValues == {-1, 10, 11, 5000, 5010}

KeyInit ==
    /\ RunInit
    /\ fetcher = FetcherIdle
    /\ MatcherIdle
    /\ TrackIdle
    /\ kA \in CoordValues \X CoordValues \X CoordValues
    /\ kB \in CoordValues \X CoordValues \X CoordValues
    /\ kKeys = <<>>

\* METDataKey = f"{lat}_{lon}_{ele}".replace('.', '_'), for both samples
MakeKeys ==
    /\ kKeys = <<>>
    /\ kKeys' = <<METDataKey(kA[1], kA[2], kA[3]), METDataKey(kB[1], kB[2], kB[3])>>
    /\ UNCHANGED <<runVars, fetcher, matcherVars, trackVars, kA, kB>>

KeyNext == MakeKeys

KeySpec == KeyInit /\ [][KeyNext]_vars


---------------------------------------------------------------------------
(* Properties *)

\* the cache key of sample j (1-based) of the current track
SampleKey(j) == METDataKey(gpxDict.lat[j], gpxDict.lon[j], gpxDict.ele[j])

CallKey(c) == METDataKey(c.lat, c.lon, c.alt)

Weather(d) ==
    [temp_low |-> d.temp_low, temp_high |-> d.temp_high, humidity |-> d.humidity,
     wind_speed |-> d.wind_speed, cloud_area_fraction |-> d.cloud_area_fraction,
     wind_from_direction |-> d.wind_from_direction]

\* C1: a fetcher call whose 5 requests all failed ends by returning None, it
\* does not raise.  (Violated: the call ends in UnboundLocalError.)
C1_ExhaustedReturnsNone ==
    (fetcher.outcome \notin {"idle", "running"} /\ Len(fetcher.delays) = 5)
        => (fetcher.outcome = "returned" /\ fetcher.result = <<>>
               /\ fetcher.error = "none")

\* C2: in a non-fresh run with a persisted cache, a sample whose key is in the
\* cache uses the cached series, a sample whose key is not is fetched and
\* stored, and a miss never aborts the run.  (Violated: a miss is a KeyError.)
C2_NonFreshMissFetches ==
    (mode = "assemble" /\ ~fresh)
        => /\ error # "KeyError"
           /\ \A j \in 1..Len(obtained) :
                  /\ SampleKey(j) \in DOMAIN METdata
                  /\ obtained[j] = METdata[SampleKey(j)]

\* C3: within one run the fetcher is called at most once per fingerprint.
\* (Violated: a fresh run calls it for every sample.)
C3_OneFetchPerFingerprint ==
    \A a, b \in 1..Len(fetchLog) :
        a # b => CallKey(fetchLog[a]) # CallKey(fetchLog[b])

\* C4: if all requests of a fetcher call of the run failed, the run ends in an
\* error, and it writes neither fullDict.json nor the chart, whatever the
\* position of the sample.
C4_UnavailableAbortsRun ==
    (\E c \in 1..Len(fetchLog) : fetchLog[c].allFailed)
        => /\ pc = "aborted"
           /\ error # "none"
           /\ written = {}

C4_Witness ==
    /\ pc = "aborted"
    /\ Len(fetchLog) = 2
    /\ ~fetchLog[1].allFailed
    /\ fetchLog[2].allFailed

\* C5: when a run with the fresh flag completes, every entry the persisted
\* cache held under a key that is not on the run's track is still in the
\* persisted cache.  (Violated: the run starts from an empty cache and
\* rewrites the file.)
C5_FreshKeepsOtherEntries ==
    [][(pc = "loop" /\ pc' = "done" /\ args.fresh)
         => \A k \in DOMAIN pklFile.data :
                (\A j \in 1..Len(gpxDict.lat) : k # SampleKey(j))
                    => (k \in DOMAIN pklFile'.data
                           /\ pklFile'.data[k] = pklFile.data[k])]_vars

\* C6: every list of a produced profile has as many entries as the track has
\* trackpoints.  (Violated: the track without trackpoints gets distance [0].)
C6_ParallelArraysEqualLength ==
    (pc = "done" /\ mode = "assemble")
        => LET d == jsonFile.data
               n == Len(gpxData)
           IN  /\ Len(d.distance) = n /\ Len(d.ele) = n /\ Len(d.time) = n
               /\ Len(d.lat) = n /\ Len(d.lon) = n
               /\ Len(d.temp_low) = n /\ Len(d.temp_high) = n
               /\ Len(d.humidity) = n /\ Len(d.wind_speed) = n
               /\ Len(d.cloud_area_fraction) = n
               /\ Len(d.wind_from_direction) = n

\* C7: a fetcher call issues at most 5 requests, none after a successful one
\* (success on attempt k is exactly k requests), and sleeps 5*k seconds after
\* its k-th failed request.
C7_BoundedLinearBackoff ==
    /\ fetcher.requests <= 5
    /\ \A k \in 1..Len(fetcher.delays) : fetcher.delays[k] = 5 * k
    /\ fetcher.outcome = "returned" => fetcher.requests = Len(fetcher.delays) + 1
    /\ fetcher.outcome # "returned" => fetcher.requests = Len(fetcher.delays)

C7_Witness ==
    /\ fetcher.outcome = "returned"
    /\ fetcher.requests = 5
    /\ fetcher.delays = <<5, 10, 15, 20>>

\* C8: a completed non-fresh run over the track of the run that filled the
\* cache calls the fetcher for no sample and yields the weather lists of
\* that run.  (Violated: a fresh run fetches a key twice, C3, shows the first
\* answer and caches the second.)
C8_SecondRunSameWeather ==
    [][(pc = "loop" /\ pc' = "done" /\ ~fresh /\ jsonFile.exists
          /\ jsonFile.data.lat = gpxDict.lat /\ jsonFile.data.lon = gpxDict.lon
          /\ jsonFile.data.ele = gpxDict.ele /\ jsonFile.data.time = gpxDict.time)
         => (fetchLog = <<>> /\ Weather(jsonFile'.data) = Weather(jsonFile.data))]_vars

\* C9: in a produced profile the samples are in track order, and entry j of
\* each weather list is the field of the entry the matcher selects, for the
\* shifted time of sample j, in the series obtained for the location of
\* sample j (fetched for it in a fresh run, read under its key in a non-fresh
\* run).
C9_IndexAligned ==
    (pc = "done" /\ mode = "assemble")
        => /\ Len(obtained) = Len(gpxData)
           /\ \A f \in DOMAIN met : Len(met[f]) = Len(gpxData)
           /\ Weather(jsonFile.data) = met
           /\ \A j \in 1..Len(gpxData) :
                  LET series == obtained[j]
                      d == jsonFile.data
                      e == series[FindClosestTimeIndex(fromisoformat(d.time[j]), series) + 1].details
                  IN  /\ d.lat[j] = gpxData[j].lat
                      /\ d.lon[j] = gpxData[j].lon
                      /\ <<d.ele[j]>> = gpxData[j].ele
                      /\ fromisoformat(d.time[j])
                             = (args.datetime_start - LocalOffset)
                                   + (fromisoformat(gpxData[j].time[1])
                                          - fromisoformat(gpxData[1].time[1]))
                      /\ d.temp_low[j] = e.air_temperature_percentile_10
                      /\ d.temp_high[j] = e.air_temperature_percentile_90
                      /\ d.humidity[j] = e.relative_humidity
                      /\ d.wind_speed[j] = e.wind_speed
                      /\ d.cloud_area_fraction[j] = e.cloud_area_fraction
                      /\ d.wind_from_direction[j] = e.wind_from_direction
                      /\ IF fresh
                         THEN /\ fetchLog[j].lat = gpxData[j].lat
                              /\ fetchLog[j].lon = gpxData[j].lon
                              /\ <<fetchLog[j].alt>> = gpxData[j].ele
                         ELSE /\ SampleKey(j) \in DOMAIN pklFile.data
                              /\ series = pklFile.data[SampleKey(j)]

C9_Witness ==
    /\ pc = "done"
    /\ mode = "assemble"
    /\ Len(met.temp_low) = 2
    /\ met.temp_low[1] # met.temp_low[2]
    /\ gpxDict.lon[1] # gpxDict.lon[2]

\* C10: the matcher returns an index whose entry is nearest in time to the
\* target, and the lowest such index.
C10_NearestLowestIndex ==
    mIndex # -1
        => /\ mIndex + 1 \in 1..Len(mSeries)
           /\ \A k \in 1..Len(mSeries) :
                  Abs(mSeries[mIndex + 1].time - mTime) <= Abs(mSeries[k].time - mTime)
           /\ \A k \in 1..mIndex :
                  Abs(mSeries[k].time - mTime) > Abs(mSeries[mIndex + 1].time - mTime)

C10_Witness ==
    /\ mIndex = 0
    /\ Len(mSeries) >= 2
    /\ mSeries[1].time = mTime + 1
    /\ mSeries[2].time = mTime - 1

\* the instant an ISO-8601 text denotes
Instant(t) == t.wall - t.off

\* C13: shiftTimeGPX adds one constant offset: the first timestamp becomes the
\* start time normalised to UTC, every difference time[k] - time[0] is kept,
\* and the number and order of the samples are unchanged.
C13_ShiftAddsConstantOffset ==
    tStep \in {"shifted", "twice"} =>
        /\ Len(tShifted.time) = Len(tParsed.time)
        /\ tShifted.lat = tParsed.lat
        /\ tShifted.lon = tParsed.lon
        /\ tShifted.ele = tParsed.ele
        /\ tShifted.distance = tParsed.distance
        /\ Len(tParsed.time) >= 1 =>
               tShifted.time[1] = [wall |-> tStart - LocalOffset, off |-> 0]
        /\ \A k \in 1..Len(tParsed.time) :
               /\ tShifted.time[k].off = 0
               /\ Instant(tShifted.time[k]) - Instant(tShifted.time[1])
                      = Instant(tParsed.time[k]) - Instant(tParsed.time[1])

C13_Witness ==
    /\ tStep = "shifted"
    /\ Len(tParsed.time) = 2
    /\ tParsed.time[1].off # 0
    /\ Instant(tParsed.time[1]) # Instant(tParsed.time[2])
    /\ tShifted.time[1] # tParsed.time[1]

\* C14: shiftTimeGPX never returns normally for a track with zero samples.
\* (Violated: for an empty time list both list comprehensions are empty,
\* time[0] is never evaluated, and the call returns the empty track.)
C14_EmptyTrackNeverShifted ==
    ~(tStep \in {"shifted", "twice"} /\ Len(tDoc) = 0)

\* C15: for markup with N trackpoints, gpx2dict returns lat, lon, ele, time
\* and distance with exactly N entries each, distance non-decreasing and
\* starting at 0.  (Violated: distance starts as [0] even for N = 0, and a
\* trackpoint without ele or time adds nothing to that list.)
C15_ParserArraysHaveNEntries ==
    tStep # "none" =>
        LET N == Len(tDoc)
        IN  /\ Len(tParsed.lat) = N
            /\ Len(tParsed.lon) = N
            /\ Len(tParsed.ele) = N
            /\ Len(tParsed.time) = N
            /\ Len(tParsed.distance) = N
            /\ N >= 1 => tParsed.distance[1] = 0
            /\ \A k \in 1..(Len(tParsed.distance) - 1) :
                   tParsed.distance[k] <= tParsed.distance[k + 1]

\* C17: for a track with at least one sample, shifting twice to the same
\* start time gives the same track as shifting once.
C17_ShiftIdempotent ==
    (tStep = "twice" /\ Len(tParsed.time) >= 1) => tTwice = tShifted

C17_Witness ==
    /\ tStep = "twice"
    /\ Len(tParsed.time) = 2
    /\ tParsed.time[2].off # tParsed.time[1].off
    /\ tShifted # tParsed
    /\ tTwice.time[2] # tTwice.time[1]

\* C18: the cache key is an injective function of (lat, lon, ele): two
\* samples have the same key exactly when all three values are equal.
C18_KeyInjective ==
    kKeys # <<>> => ((kKeys[1] = kKeys[2]) <=> (kA = kB))

C18_Witness ==
    /\ kKeys # <<>>
    /\ kA[1] = kB[1] /\ kA[1] < 0
    /\ kA[2] = kB[2]
    /\ kA[3] = 5000 /\ kB[3] = 5010
    /\ kKeys[1] # kKeys[2]

\* C11: a run that resumes (debug flag set, fullDict.json present) makes no
\* track request and no weather request, neither loads nor rewrites the
\* weather cache, and the profile it plots and leaves in fullDict.json is
\* the profile that was in fullDict.json before.
C11_ResumeShortCircuit ==
    [][(pc = "idle" /\ mode' = "resume") =>
           /\ args'.debug /\ jsonFile.exists
           /\ pc' = "done"
           /\ trackRequests' = 0
           /\ fetchLog' = <<>>
           /\ gpxFiles' = gpxFiles
           /\ METdata' = <<>>
           /\ pklFile' = pklFile
           /\ "METdata.pkl" \notin written'
           /\ jsonFile' = jsonFile
           /\ htmlFile'.exists
           /\ htmlFile'.data.x = jsonFile.data.distance
           /\ htmlFile'.data.temp_low = jsonFile.data.temp_low
           /\ htmlFile'.data.temp_high = jsonFile.data.temp_high
           /\ htmlFile'.data.ele = jsonFile.data.ele]_vars

C11_Witness ==
    /\ mode = "resume"
    /\ pc = "done"
    /\ pklFile.exists
    /\ Len(jsonFile.data.temp_low) = 2
    /\ jsonFile.data.lon[2] < 0

\* C12: METdata.pkl is written once, by a run of the assembler that has
\* processed every sample, and at no other moment: a run that aborts leaves
\* the file as it was when the run started.
C12_CacheWrittenOnceAtEnd ==
    [][/\ (pklFile' # pklFile \/ "METdata.pkl" \in written')
           => /\ pc = "loop" /\ pc' = "done"
              /\ i = Len(gpxDict.lat)
              /\ Len(obtained) = Len(gpxDict.lat)
              /\ "METdata.pkl" \notin written
              /\ pklFile' = [exists |-> TRUE, data |-> METdata]
       /\ (pc = "loop" /\ pc' = "done") => "METdata.pkl" \in written'
       /\ pc' = "aborted" => pklFile' = pklFile]_vars

C12_Witness ==
    /\ pc = "aborted"
    /\ mode = "assemble"
    /\ fresh
    /\ i = 1
    /\ pklFile.exists
    /\ DOMAIN METdata # DOMAIN pklFile.data

\* the inputs checkArgs is to refuse
InvalidInput(a) ==
    \/ ~a.start.iso
    \/ a.race \notin {"rennet", "rittet", "løpet"}
    \/ a.hours = <<>> /\ a.minutes = <<>>
    \/ a.gpx # <<>> /\ a.gpx[1] # "track.gpx"

C19_CacheHoldsPayloads ==
    pklFile.exists => \A k \in DOMAIN pklFile.data : pklFile.data[k] \in Payloads

C19_Witness ==
    /\ pc = "aborted"
    /\ error = "UnboundLocalError"
    /\ i = 1
    /\ pklFile.exists
    /\ Cardinality(DOMAIN pklFile.data) = 2

\* C20: after a run whose track download failed there is no track file for
\* that race and finishing time.  (Violated: open(fname, 'w') has created
\* the file before f.write(None) raises, so an empty file stays and every
\* later run reads it instead of downloading.)
C20_FailedDownloadLeavesNoFile ==
    (pc = "aborted" /\ mode = "assemble" /\ trackRequests = 1) =>
        ~gpxFiles[<<args.race, args.total_time>>].exists

=============================================================================
